---------------------------- MODULE Spec2Model ----------------------------
(***************************************************************************)
(* Binary search of the Ada-SPARK-Best-Practices corpus:                   *)
(*   - the C function binary_search       (src/unnamed/part_001, 11-30)    *)
(*   - the Ada function Search            (binary_search.adb, 25-66)       *)
(* Both run on the same array and target.  One step of the model is one    *)
(* pass through the loop (test, midpoint, comparison, update) or the exit. *)
(* The C array is 0-based: C index i is element arr[i + 1] of the TLA+     *)
(* sequence; the Ada array of the test is 1-based like the sequence.       *)
(* A second specification, SpecMid, applies the midpoint computation to    *)
(* bounds taken near 0, near Max_Size and near INT_MAX.                    *)
(* Further specifications model the other programs of the corpus, each on  *)
(* its own variables: concurrent calls of binary_search (SpecConc),        *)
(* binary_search_naive (SpecNaive), is_sorted (SpecSorted), Shift_Data     *)
(* (SpecShift), Set_Score (SpecScore), Copy_Name (SpecCopy), Find_Max and  *)
(* find_max (SpecMax), Divide_With_Remainder (SpecDiv), and the C          *)
(* fill_buffer (SpecFill) and shift_data (SpecCShift).                     *)
(***************************************************************************)
EXTENDS Integers, Sequences, FiniteSets

VARIABLES
    arr,      \* the array searched (int arr[] / Arr : Integer_Array)
    target,   \* the value looked for
    checks,   \* TRUE when the Ada build executes contracts (assertion policy Check)
    pc,       \* C binary_search: "call", "loop", "done"
    left,     \* C: int left
    right,    \* C: int right
    mid,      \* C: int mid of the last pass
    result,   \* C: value returned
    reads,    \* C: indices i at which arr[i] was read
    iters,    \* C: passes through the loop body
    pcA,      \* Ada Search: "call", "loop", "done", "raised"
    Left,     \* Ada: Left : Positive
    Right,    \* Ada: Right : Natural
    Mid,      \* Ada: Mid : Index_Type of the last pass
    Result,   \* Ada: Search'Result
    Reads,    \* Ada: indices I at which Arr (I) was read
    Iters,    \* Ada: passes through the loop body
    mpc,      \* midpoint computation: "idle", "start", "done"
    lo,       \* midpoint computation: lower bound
    hi,       \* midpoint computation: upper bound
    diff,     \* midpoint computation: high - low
    half,     \* midpoint computation: (high - low) / 2
    m,        \* midpoint computation: low + (high - low) / 2
    ovf,      \* midpoint computation: some operation left the int range
    npc,      \* naive midpoint: "idle", "start", "done"
    mn,       \* naive midpoint: (left + right) / 2
    ovfn,     \* naive midpoint: left + right left the int range
    tpc,      \* concurrent calls of binary_search: position of each call
    ttarget,  \* concurrent calls: target of each call
    tleft,    \* concurrent calls: left of each call
    tright,   \* concurrent calls: right of each call
    tresult,  \* concurrent calls: value returned by each call
    spc,      \* Shift_Data: "idle", "loop", "done"
    Buf,      \* Shift_Data: Buf
    BufOld,   \* Shift_Data: Buf'Old
    Offset,   \* Shift_Data: Offset
    Shift_I,  \* Shift_Data: loop parameter I
    scpc,     \* Set_Score: "idle", "call", "done"
    Scores,   \* Set_Score: Scores
    ScoresOld, \* Set_Score: Scores'Old
    Index,    \* Set_Score: Index
    Value,    \* Set_Score: Value
    numbers,  \* Find_Max / find_max: the array
    fpc,      \* Ada Find_Max: "idle", "call", "loop", "done"
    Max,      \* Ada Find_Max: Max
    FM_I,     \* Ada Find_Max: loop parameter I
    cpc,      \* C find_max: "idle", "call", "loop", "done"
    max,      \* C find_max: int max
    fm_i,     \* C find_max: int i
    dpc,      \* Divide_With_Remainder: "idle", "call", "done", "raised"
    Dividend, \* Divide_With_Remainder: Dividend
    Divisor,  \* Divide_With_Remainder: Divisor
    Quotient, \* Divide_With_Remainder: Quotient
    Remainder, \* Divide_With_Remainder: Remainder
    ipc,      \* C is_sorted: "idle", "call", "loop", "done"
    is_i,     \* C is_sorted: int i
    is_ret,   \* C is_sorted: value returned
    is_reads, \* C is_sorted: indices i at which arr[i] was read
    cnpc,     \* Copy_Name: "idle", "loop", "done", "raised"
    Dest,     \* Copy_Name: Dest
    Src,      \* Copy_Name: the characters of Src, from Src'First on
    Src_First, \* Copy_Name: Src'First
    Copy_I,   \* Copy_Name: loop parameter I
    CopyReads, \* Copy_Name: indices at which Src was read
    CopyWrites, \* Copy_Name: indices at which Dest was written
    fbpc,     \* C fill_buffer: "idle", "loop", "done", "trapped"
    fb_buf,   \* C fill_buffer: the object buf points to
    fb_entry, \* C fill_buffer: the object as it was at the call
    fb_size,  \* C fill_buffer: int size
    fb_value, \* C fill_buffer: char value
    fb_i,     \* C fill_buffer: int i
    fb_writes, \* C fill_buffer: indices i at which buf[i] was written
    sdpc,     \* C shift_data: "idle", "loop", "done", "trapped"
    sd_buf,   \* C shift_data: the object buf points to
    sd_size,  \* C shift_data: int size
    sd_offset, \* C shift_data: int offset
    sd_i,     \* C shift_data: int i
    sd_reads, \* C shift_data: indices at which buf was read
    sd_writes, \* C shift_data: indices at which buf was written
    n_pc,     \* C binary_search_naive: "idle", "call", "loop", "done", "trapped"
    n_left,   \* naive: int left
    n_right,  \* naive: int right
    n_mid,    \* naive: int mid of the last pass
    n_result, \* naive: value returned
    n_reads,  \* naive: indices i at which arr[i] was read
    n_iters,  \* naive: passes through the loop body
    n_ovf     \* naive: left + right left the int range in some pass

cvars == <<pc, left, right, mid, result, reads, iters>>
avars == <<pcA, Left, Right, Mid, Result, Reads, Iters>>
mvars == <<mpc, lo, hi, diff, half, m, ovf, npc, mn, ovfn>>
tvars == <<tpc, ttarget, tleft, tright, tresult>>
svars == <<spc, Buf, BufOld, Offset, Shift_I>>
scvars == <<scpc, Scores, ScoresOld, Index, Value>>
fvars == <<numbers, fpc, Max, FM_I, cpc, max, fm_i>>
\* the state of the programs other than the two searches and the midpoint
xvars == <<tvars, svars, scvars, fvars>>
dvars == <<dpc, Dividend, Divisor, Quotient, Remainder>>
\* the state of the arithmetic and buffer programs
isvars == <<ipc, is_i, is_ret, is_reads>>
cnvars == <<cnpc, Dest, Src, Src_First, Copy_I, CopyReads, CopyWrites>>
fbvars == <<fbpc, fb_buf, fb_entry, fb_size, fb_value, fb_i, fb_writes>>
sdvars == <<sdpc, sd_buf, sd_size, sd_offset, sd_i, sd_reads, sd_writes>>
nvars == <<n_pc, n_left, n_right, n_mid, n_result, n_reads, n_iters, n_ovf>>
zvars == <<dvars, isvars, cnvars, fbvars, sdvars, nvars>>
vars  == <<arr, target, checks, cvars, avars, mvars, xvars, zvars>>

---------------------------------------------------------------------------
(* Bounds of the model *)

\* longest generated array
MaxLen == 4
\* generated elements are 1 .. MaxVal
MaxVal == 5
\* midpoint bounds are taken within MidSpread of 0, of Max_Size and of INT_MAX
MidSpread == 4
\* the pass counters iters and Iters stop counting at IterCap
IterCap == 6
\* concurrent calls of binary_search on one array
NCalls == 2
\* longest array searched by the concurrent calls
ConcLen == 3
\* elements of that array are 1 .. ConcVal
ConcVal == 2
\* the generated buffers of Shift_Data repeat a pattern of 1 .. ShiftLen
\* characters
ShiftLen == 2
\* characters of the patterns are 'A' .. Character'Val (64 + ShiftVal)
ShiftVal == 2
\* longest generated array of Set_Score besides the test's
ScoreLen == 3
\* elements and values of Set_Score are 0 .. ScoreVal, and the test's 100
ScoreVal == 1
\* elements of the arrays of Find_Max are -FmVal .. FmVal
FmVal == 1
\* operands of Divide_With_Remainder are -DivVal .. DivVal, besides the
\* test's and the ends of Integer
DivVal == 4
\* longest generated source of Copy_Name besides the test's and the full one
CopyLen == 3
\* characters of the generated sources are 'A' .. Character'Val (64 + CopyVal)
CopyVal == 2
\* Src'First of Copy_Name is in 1 .. CopyFirst
CopyFirst == 2
\* largest generated buffer of fill_buffer besides main's
FillLen == 4
\* largest buffer of the C shift_data
CShiftLen == 3
\* characters of that buffer are 'A' .. 'A' + CShiftVal - 1
CShiftVal == 2
\* offset of the C shift_data is -1 or in 0 .. size + CShiftOff
CShiftOff == 2
\* longest generated array when the array need not be sorted
AnyMaxLen == 4
\* elements of those arrays are 1 .. AnyMaxVal
AnyMaxVal == 3

---------------------------------------------------------------------------
(* Program constants *)

\* largest C int (32 bits); Integer'Last of GNAT
INT_MAX == 2147483647
INT_MIN == (0 - INT_MAX) - 1

\* binary_search.adb: Max_Size : constant := 10_000
Max_Size == 10000

\* the array of main / Test_Binary_Search
TestArr == <<1, 3, 5, 7, 9, 11, 13, 15, 17, 19>>

\* the targets of main / Test_Binary_Search
TestTargets == {7, 19, 1, 10, 20, 0 - 5}

---------------------------------------------------------------------------
(* C int arithmetic, 32 bits, two's complement wrap on overflow *)

AddFits(a, b) == IF b >= 0 THEN a <= INT_MAX - b ELSE a >= INT_MIN - b
SubFits(a, b) == IF b >= 0 THEN a >= INT_MIN + b ELSE a <= INT_MAX + b

AddInt(a, b) ==
    IF AddFits(a, b) THEN a + b
    ELSE IF b >= 0 THEN (a - INT_MAX - 1) + (b - INT_MAX - 1)
    ELSE (a + INT_MAX + 1) + (b + INT_MAX + 1)

SubInt(a, b) ==
    IF SubFits(a, b) THEN a - b
    ELSE IF b >= 0 THEN (a + INT_MAX + 1) - (b - INT_MAX - 1)
    ELSE (a - INT_MAX - 1) - (b + INT_MAX + 1)

\* C division truncates toward zero (b > 0 here)
DivInt(a, b) ==
    IF a >= 0 \/ a % b = 0 THEN a \div b ELSE (a \div b) + 1

\* the pass counters are observers of the model, not program state
Count(n) == IF n < IterCap THEN n + 1 ELSE n

---------------------------------------------------------------------------
(* Inputs *)

\* Is_Sorted (binary_search.adb 16-19) / is_sorted (part_001 55-62):
\* adjacent elements only
Is_Sorted(a) ==
    Len(a) <= 1 \/ \A I \in 1 .. Len(a) - 1 : a[I] <= a[I + 1]

ArrVals == 1 .. MaxVal

Arrays == UNION {[1 .. n -> ArrVals] : n \in 0 .. MaxLen}

\* the arrays a caller honouring the precondition passes
SortedArrays == {a \in Arrays : Is_Sorted(a)} \cup {TestArr}

Targets == (0 .. MaxVal + 1) \cup TestTargets

---------------------------------------------------------------------------
(* C: int binary_search(int arr[], int size, int target) *)

size == Len(arr)

\* arr[i], 0-based
Elem(i) == arr[i + 1]

\* int left = 0;
InitLeft_Bug == 0 + 1
InitLeft == 0

\* int right = size - 1;
InitRight_Bug(n) == n
InitRight(n) == SubInt(n, 1)

\* while (left <= right)
LoopCond_Bug(l, r) == l < r
LoopCond(l, r) == l <= r

\* int mid = left + (right - left) / 2;
\*   right - left
MidDiff(l, r) == SubInt(r, l)
\*   (right - left) / 2
MidHalf(l, r) == DivInt(MidDiff(l, r), 2)
\*   left + (right - left) / 2
Midpoint_Naive(l, r) == DivInt(AddInt(l, r), 2)
Midpoint_Left(l, r) == l
Midpoint_Up(l, r) == AddInt(AddInt(l, MidHalf(l, r)), 1)
Midpoint(l, r) == AddInt(l, MidHalf(l, r))

\* whether an operation of the midpoint leaves the int range
MidOverflows(l, r) ==
    \/ ~SubFits(r, l)
    \/ ~AddFits(l, MidHalf(l, r))

\* if (arr[mid] == target)
IsMatch_Bug(a, t) == a <= t
IsMatch(a, t) == a = t

\* else if (arr[mid] < target)
IsLess_Bug(a, t) == a > t
IsLess(a, t) == a < t

\* return mid;
FoundResult_Bug(i) == AddInt(i, 1)
FoundResult(i) == i

\* left = mid + 1;
NextLeft_Same(i) == i
NextLeft_Skip(i) == AddInt(i, 2)
NextLeft(i) == AddInt(i, 1)

\* right = mid - 1;
NextRight_Skip(i) == SubInt(i, 2)
NextRight_Same(i) == i
NextRight(i) == SubInt(i, 1)

\* return -1;
NotFound == 0 - 1

\* binary_search writes its locals only
bs_frame == UNCHANGED <<arr, target, checks, avars, mvars, xvars, zvars>>

\* lines 12-13: the locals are set up
bs_enter ==
    /\ pc = "call"
    /\ pc' = "loop"
    /\ left' = InitLeft
    /\ right' = InitRight(size)
    /\ UNCHANGED <<mid, result, reads, iters>>
    /\ bs_frame

\* whether arr[i] is an element of the array
InBounds(i) == i \in 0 .. size - 1

\* the values a read of arr[i] can give: the element, or, outside the array
\* (undefined behaviour), any int: one below, one equal to and one above target
MemoryFor(i, t) == IF InBounds(i) THEN {Elem(i)} ELSE {INT_MIN, t, INT_MAX}
MemoryAt(i) == MemoryFor(i, target)

\* if (arr[mid] = target): the comparison written as an assignment
bs_found_Assign ==
    /\ pc = "loop"
    /\ LoopCond(left, right)
    /\ target # 0
    /\ LET i == Midpoint(left, right) IN
        /\ InBounds(i)
        /\ arr' = [arr EXCEPT ![i + 1] = target]
        /\ mid' = i
        /\ reads' = reads
        /\ result' = FoundResult(i)
    /\ pc' = "done"
    /\ iters' = Count(iters)
    /\ UNCHANGED <<left, right>>
    /\ UNCHANGED <<target, checks, avars, mvars, xvars, zvars>>

\* lines 15-19: the pass finds the target at mid
bs_found ==
    /\ pc = "loop"
    /\ LoopCond(left, right)
    /\ LET i == Midpoint(left, right) IN
        /\ \E v \in MemoryAt(i) :
            /\ IsMatch(v, target)
        /\ mid' = i
        /\ reads' = reads \cup {i}
        /\ result' = FoundResult(i)
    /\ pc' = "done"
    /\ iters' = Count(iters)
    /\ UNCHANGED <<left, right>>
    /\ bs_frame

\* lines 15-22: arr[mid] < target, search the right half
bs_right ==
    /\ pc = "loop"
    /\ LoopCond(left, right)
    /\ LET i == Midpoint(left, right) IN
        /\ \E v \in MemoryAt(i) :
            /\ ~IsMatch(v, target)
            /\ IsLess(v, target)
        /\ mid' = i
        /\ reads' = reads \cup {i}
        /\ left' = NextLeft(i)
    /\ iters' = Count(iters)
    /\ UNCHANGED <<pc, right, result>>
    /\ bs_frame

\* lines 15-25: arr[mid] > target, search the left half
bs_left ==
    /\ pc = "loop"
    /\ LoopCond(left, right)
    /\ LET i == Midpoint(left, right) IN
        /\ \E v \in MemoryAt(i) :
            /\ ~IsMatch(v, target)
            /\ ~IsLess(v, target)
        /\ mid' = i
        /\ reads' = reads \cup {i}
        /\ right' = NextRight(i)
    /\ iters' = Count(iters)
    /\ UNCHANGED <<pc, left, result>>
    /\ bs_frame

\* lines 15, 29: left > right, not found
bs_exit ==
    /\ pc = "loop"
    /\ ~LoopCond(left, right)
    /\ pc' = "done"
    /\ result' = NotFound
    /\ UNCHANGED <<left, right, mid, reads, iters>>
    /\ bs_frame

binary_search ==
    \/ bs_enter
    \/ bs_found
    \/ bs_right
    \/ bs_left
    \/ bs_exit

---------------------------------------------------------------------------
(* Ada: function Search (Arr : Integer_Array; Target : Integer)            *)
(*      return Natural                                                     *)

\* Arr'First and Arr'Last of a 1-based array such as the test's aggregate
Arr_First == 1
Arr_Last == Len(arr)

\* Arr'Range
Arr_Range == Arr_First .. Arr_Last

\* Pre => Arr'Length >= 1 and then Is_Sorted (Arr)
Search_Pre == Len(arr) >= 1 /\ Is_Sorted(arr)

\* Mid := Left + (Right - Left) / 2;
Search_Mid_Up(L, R) == L + (R - L + 1) \div 2
Search_Mid(L, R) == L + (R - L) \div 2

\* Left := Mid + 1;
Search_NextLeft(I) == I + 1

\* Right := Mid - 1;
Search_NextRight_Skip(I) == I - 2
Search_NextRight(I) == I - 1

\* return 0;
Search_NotFound == 0

\* Search writes its locals only
Search_Frame == UNCHANGED <<arr, target, checks, cvars, mvars, xvars, zvars>>

\* lines 29-30: the precondition is executed and fails (Assertion_Error)
Search_PreFail ==
    /\ pcA = "call"
    /\ checks
    /\ ~Search_Pre
    /\ pcA' = "raised"
    /\ UNCHANGED <<Left, Right, Mid, Result, Reads, Iters>>
    /\ Search_Frame

\* lines 36-37: the precondition holds or is not executed; the locals are set up
Search_Enter ==
    /\ pcA = "call"
    /\ checks => Search_Pre
    /\ pcA' = "loop"
    /\ Left' = Arr_First
    /\ Right' = Arr_Last
    /\ UNCHANGED <<Mid, Result, Reads, Iters>>
    /\ Search_Frame

\* lines 40-52: the pass finds Target at Mid
Search_Found ==
    /\ pcA = "loop"
    /\ Left <= Right
    /\ LET I == Search_Mid(Left, Right) IN
        /\ I \in Arr_Range
        /\ arr[I] = target
        /\ Mid' = I
        /\ Reads' = Reads \cup {I}
        /\ Result' = I
    /\ pcA' = "done"
    /\ Iters' = Count(Iters)
    /\ UNCHANGED <<Left, Right>>
    /\ Search_Frame

\* lines 40-56: Arr (Mid) < Target
Search_GoRight ==
    /\ pcA = "loop"
    /\ Left <= Right
    /\ LET I == Search_Mid(Left, Right) IN
        /\ I \in Arr_Range
        /\ arr[I] # target
        /\ arr[I] < target
        /\ Mid' = I
        /\ Reads' = Reads \cup {I}
        /\ Left' = Search_NextLeft(I)
    /\ Iters' = Count(Iters)
    /\ UNCHANGED <<pcA, Right, Result>>
    /\ Search_Frame

\* lines 40-60: Arr (Mid) > Target
Search_GoLeft ==
    /\ pcA = "loop"
    /\ Left <= Right
    /\ LET I == Search_Mid(Left, Right) IN
        /\ I \in Arr_Range
        /\ arr[I] # target
        /\ ~(arr[I] < target)
        /\ Mid' = I
        /\ Reads' = Reads \cup {I}
        /\ Right' = Search_NextRight(I)
    /\ Iters' = Count(Iters)
    /\ UNCHANGED <<pcA, Left, Result>>
    /\ Search_Frame

\* lines 40, 65: Left > Right, not found
Search_Exit ==
    /\ pcA = "loop"
    /\ ~(Left <= Right)
    /\ pcA' = "done"
    /\ Result' = Search_NotFound
    /\ UNCHANGED <<Left, Right, Mid, Reads, Iters>>
    /\ Search_Frame

Search ==
    \/ Search_PreFail
    \/ Search_Enter
    \/ Search_Found
    \/ Search_GoRight
    \/ Search_GoLeft
    \/ Search_Exit

---------------------------------------------------------------------------
(* The two searches on one input *)

\* no concurrent calls run
ConcIdle ==
    /\ tpc = <<>> /\ ttarget = <<>> /\ tleft = <<>> /\ tright = <<>>
    /\ tresult = <<>>

\* Shift_Data is not called
ShiftIdle ==
    /\ spc = "idle" /\ Buf = <<>> /\ BufOld = <<>> /\ Offset = 1
    /\ Shift_I = 1

\* Set_Score is not called
ScoreIdle ==
    /\ scpc = "idle" /\ Scores = <<>> /\ ScoresOld = <<>> /\ Index = 1
    /\ Value = 0

\* Find_Max and find_max are not called
MaxIdle ==
    /\ numbers = <<>>
    /\ fpc = "idle" /\ Max = 0 /\ FM_I = 1
    /\ cpc = "idle" /\ max = 0 /\ fm_i = 0

\* Divide_With_Remainder is not called
DivIdle ==
    /\ dpc = "idle" /\ Dividend = 0 /\ Divisor = 1 /\ Quotient = 0
    /\ Remainder = 0

\* is_sorted is not called
IsIdle == ipc = "idle" /\ is_i = 0 /\ is_ret = FALSE /\ is_reads = {}

\* Copy_Name is not called
CopyIdle ==
    /\ cnpc = "idle" /\ Dest = <<>> /\ Src = <<>> /\ Src_First = 1
    /\ Copy_I = 1 /\ CopyReads = {} /\ CopyWrites = {}

\* fill_buffer is not called
FillIdle ==
    /\ fbpc = "idle" /\ fb_buf = <<>> /\ fb_entry = <<>>
    /\ fb_size = 0 /\ fb_value = 0
    /\ fb_i = 0 /\ fb_writes = {}

\* the C shift_data is not called
CShiftIdle ==
    /\ sdpc = "idle" /\ sd_buf = <<>> /\ sd_size = 0 /\ sd_offset = 0
    /\ sd_i = 0 /\ sd_reads = {} /\ sd_writes = {}

\* binary_search_naive is not called
NaiveIdle ==
    /\ n_pc = "idle" /\ n_left = 0 /\ n_right = 0 /\ n_mid = 0
    /\ n_result = 0 /\ n_reads = {} /\ n_iters = 0 /\ n_ovf = FALSE

\* the arithmetic and buffer programs are not called
RestIdle ==
    DivIdle /\ IsIdle /\ CopyIdle /\ FillIdle /\ CShiftIdle /\ NaiveIdle

\* no midpoint computation runs in the search specifications
MidIdle ==
    /\ mpc = "idle"
    /\ lo = 0 /\ hi = 0 /\ diff = 0 /\ half = 0 /\ m = 0
    /\ ovf = FALSE
    /\ npc = "idle" /\ mn = 0 /\ ovfn = FALSE

\* both functions are at their entry; the locals hold no value yet (0 stands for it)
AtCall ==
    /\ pc = "call" /\ left = 0 /\ right = 0 /\ mid = 0 /\ result = 0
    /\ reads = {} /\ iters = 0
    /\ pcA = "call" /\ Left = 1 /\ Right = 0 /\ Mid = 1 /\ Result = 0
    /\ Reads = {} /\ Iters = 0

Init ==
    /\ arr \in SortedArrays
    /\ target \in Targets
    /\ checks \in BOOLEAN
    /\ AtCall
    /\ MidIdle
    /\ ConcIdle /\ ShiftIdle /\ ScoreIdle /\ MaxIdle /\ RestIdle

Next == binary_search \/ Search

Spec == Init /\ [][Next]_vars

\* a call that has started runs to its end: the code is sequential
FairSpec == Spec /\ WF_vars(binary_search) /\ WF_vars(Search)

---------------------------------------------------------------------------
(* The searches on arrays that need not be sorted: the C function has no   *)
(* precondition it could check, the Ada one raises when contracts run      *)

AnyArrays == UNION {[1 .. n -> 1 .. AnyMaxVal] : n \in 0 .. AnyMaxLen}

AnyTargets == 0 .. AnyMaxVal + 1

InitAny ==
    /\ arr \in AnyArrays
    /\ target \in AnyTargets
    /\ checks \in BOOLEAN
    /\ AtCall
    /\ MidIdle
    /\ ConcIdle /\ ShiftIdle /\ ScoreIdle /\ MaxIdle /\ RestIdle

SpecAny == InitAny /\ [][Next]_vars

\* a call that has started runs to its end: the code is sequential
FairSpecAny == SpecAny /\ WF_vars(binary_search) /\ WF_vars(Search)

---------------------------------------------------------------------------
(* Concurrent calls of binary_search on one array, each with its own       *)
(* target and its own locals (automatic variables of its stack frame);     *)
(* the steps of the calls interleave in any order                          *)

Calls == 1 .. NCalls

ConcArrays ==
    {a \in UNION {[1 .. n -> 1 .. ConcVal] : n \in 0 .. ConcLen} :
        Is_Sorted(a)}

ConcTargets == 0 .. ConcVal + 1

\* a write of value v to a local of call t: int left, right, mid are automatic
SetLocal_Static(f, t, v) == [x \in DOMAIN f |-> v]
SetLocal(f, t, v) == [f EXCEPT ![t] = v]

RECURSIVE SearchFrom(_, _, _)
\* lines 15-29 as a function of left, right and target: the value the loop
\* returns when it runs alone
SearchFrom(l, r, t) ==
    IF ~LoopCond(l, r) THEN NotFound
    ELSE LET i == Midpoint(l, r) IN
        IF IsMatch(Elem(i), t) THEN FoundResult(i)
        ELSE IF IsLess(Elem(i), t) THEN SearchFrom(NextLeft(i), r, t)
        ELSE SearchFrom(l, NextRight(i), t)

\* lines 11-30: the value binary_search(arr, size, t) returns when run alone
Alone(t) == SearchFrom(InitLeft, InitRight(size), t)

\* the searches of the other specifications do not run
SearchOff ==
    /\ target = 0 /\ checks = FALSE
    /\ pc = "idle" /\ left = 0 /\ right = 0 /\ mid = 0 /\ result = 0
    /\ reads = {} /\ iters = 0
    /\ pcA = "idle" /\ Left = 1 /\ Right = 0 /\ Mid = 1 /\ Result = 0
    /\ Reads = {} /\ Iters = 0

InitConc ==
    /\ arr \in ConcArrays
    /\ ttarget \in [Calls -> ConcTargets]
    /\ tpc = [t \in Calls |-> "call"]
    /\ tleft = [t \in Calls |-> 0]
    /\ tright = [t \in Calls |-> 0]
    /\ tresult = [t \in Calls |-> 0]
    /\ SearchOff
    /\ MidIdle
    /\ ShiftIdle /\ ScoreIdle /\ MaxIdle /\ RestIdle

\* a call writes its locals only
call_frame ==
    UNCHANGED <<arr, target, checks, cvars, avars, mvars, svars, scvars, fvars, zvars>>

\* lines 12-13 of call t
call_enter(t) ==
    /\ tpc[t] = "call"
    /\ tpc' = [tpc EXCEPT ![t] = "loop"]
    /\ tleft' = SetLocal(tleft, t, InitLeft)
    /\ tright' = SetLocal(tright, t, InitRight(size))
    /\ UNCHANGED <<ttarget, tresult>>
    /\ call_frame

\* lines 15-19 of call t
call_found(t) ==
    /\ tpc[t] = "loop"
    /\ LoopCond(tleft[t], tright[t])
    /\ LET i == Midpoint(tleft[t], tright[t]) IN
        /\ \E v \in MemoryFor(i, ttarget[t]) :
            /\ IsMatch(v, ttarget[t])
        /\ tresult' = [tresult EXCEPT ![t] = FoundResult(i)]
    /\ tpc' = [tpc EXCEPT ![t] = "done"]
    /\ UNCHANGED <<ttarget, tleft, tright>>
    /\ call_frame

\* lines 15-22 of call t
call_right(t) ==
    /\ tpc[t] = "loop"
    /\ LoopCond(tleft[t], tright[t])
    /\ LET i == Midpoint(tleft[t], tright[t]) IN
        /\ \E v \in MemoryFor(i, ttarget[t]) :
            /\ ~IsMatch(v, ttarget[t])
            /\ IsLess(v, ttarget[t])
        /\ tleft' = SetLocal(tleft, t, NextLeft(i))
    /\ UNCHANGED <<tpc, ttarget, tright, tresult>>
    /\ call_frame

\* lines 15-25 of call t
call_left(t) ==
    /\ tpc[t] = "loop"
    /\ LoopCond(tleft[t], tright[t])
    /\ LET i == Midpoint(tleft[t], tright[t]) IN
        /\ \E v \in MemoryFor(i, ttarget[t]) :
            /\ ~IsMatch(v, ttarget[t])
            /\ ~IsLess(v, ttarget[t])
        /\ tright' = SetLocal(tright, t, NextRight(i))
    /\ UNCHANGED <<tpc, ttarget, tleft, tresult>>
    /\ call_frame

\* lines 15, 29 of call t
call_exit(t) ==
    /\ tpc[t] = "loop"
    /\ ~LoopCond(tleft[t], tright[t])
    /\ tpc' = [tpc EXCEPT ![t] = "done"]
    /\ tresult' = [tresult EXCEPT ![t] = NotFound]
    /\ UNCHANGED <<ttarget, tleft, tright>>
    /\ call_frame

NextConc ==
    \E t \in Calls :
        \/ call_enter(t)
        \/ call_found(t)
        \/ call_right(t)
        \/ call_left(t)
        \/ call_exit(t)

SpecConc == InitConc /\ [][NextConc]_vars

---------------------------------------------------------------------------
(* Ada: procedure Shift_Data (Buf : in out Bounded_Buffer;                 *)
(*                            Offset : Buffer_Index)                       *)
(* (05_buffer_safety/example.adb, 94-108).  Characters are their           *)
(* Character'Pos.  Bounded_Buffer has Max_Buffer elements; shorter buffers *)
(* stand for it besides the buffer of Test_Shift.                          *)

\* Max_Buffer : constant := 128
Max_Buffer == 128

\* Buf'First and Buf'Last
Buf_First == 1
Buf_Last == Len(Buf)

\* Test_Shift: (1 => 'A', ..., 10 => 'J', others => '.')
TestBuffer == [i \in 1 .. Max_Buffer |-> IF i <= 10 THEN 64 + i ELSE 46]

\* Buf : in out Bounded_Buffer has Max_Buffer elements: the buffer of the
\* test, and buffers that repeat a pattern of characters
ShiftPatterns == UNION {[1 .. n -> 65 .. 64 + ShiftVal] : n \in 1 .. ShiftLen}

ShiftBuffers ==
    {[i \in 1 .. Max_Buffer |-> p[((i - 1) % Len(p)) + 1]] : p \in ShiftPatterns}
        \cup {TestBuffer}

\* Pre => Offset < Buf'Length
Shift_Pre(B, Off) == Off < Len(B)

\* the callers honour the precondition
InitShift ==
    /\ Buf \in ShiftBuffers
    /\ BufOld = Buf
    /\ Offset \in {o \in 1 .. Max_Buffer : Shift_Pre(Buf, o)}
    /\ spc = "call"
    /\ Shift_I = 1
    /\ arr = <<>>
    /\ SearchOff
    /\ MidIdle
    /\ ConcIdle /\ ScoreIdle /\ MaxIdle /\ RestIdle

\* Buf (I) := Buf (I + Offset);
Shift_Assign_Swapped(B, I, Off) == [B EXCEPT ![I + Off] = B[I]]
Shift_Assign(B, I, Off) == [B EXCEPT ![I] = B[I + Off]]

\* Shift_Data writes Buf and its loop parameter only
Shift_Frame ==
    UNCHANGED <<arr, target, checks, cvars, avars, mvars, tvars, scvars, fvars, zvars>>

\* line 102: the loop starts at Buf'First
Shift_Enter ==
    /\ spc = "call"
    /\ spc' = "loop"
    /\ Shift_I' = Buf_First
    /\ UNCHANGED <<Buf, BufOld, Offset>>
    /\ Shift_Frame

\* lines 102-103: one pass of the loop
Shift_Step ==
    /\ spc = "loop"
    /\ Shift_I <= Buf_Last - Offset
    /\ Buf' = Shift_Assign(Buf, Shift_I, Offset)
    /\ Shift_I' = Shift_I + 1
    /\ UNCHANGED <<spc, BufOld, Offset>>
    /\ Shift_Frame

\* line 107: the loop parameter has passed Buf'Last - Offset
Shift_Exit ==
    /\ spc = "loop"
    /\ Shift_I > Buf_Last - Offset
    /\ spc' = "done"
    /\ UNCHANGED <<Buf, BufOld, Offset, Shift_I>>
    /\ Shift_Frame

NextShift == Shift_Enter \/ Shift_Step \/ Shift_Exit

SpecShift == InitShift /\ [][NextShift]_vars

---------------------------------------------------------------------------
(* Ada: procedure Set_Score (Scores : in out Score_Array;                  *)
(*                           Index : Positive; Value : Integer)            *)
(* (05_buffer_safety/example.adb, 15-27)                                   *)

\* Test_Array_Bounds: Scores : Score_Array (1 .. 5) := (others => 0)
TestScores == <<0, 0, 0, 0, 0>>

ScoreArrays ==
    UNION {[1 .. n -> 0 .. ScoreVal] : n \in 1 .. ScoreLen}
        \cup {TestScores}

\* Set_Score (Scores, 3, 100) of the test, and the generated values
ScoreValues == (0 .. ScoreVal) \cup {100}

\* Pre => Index in Scores'Range
Set_Score_Pre(S, I) == I \in 1 .. Len(S)

\* the callers honour the precondition
InitScore ==
    /\ Scores \in ScoreArrays
    /\ ScoresOld = Scores
    /\ Index \in {i \in 0 .. Len(Scores) + 1 : Set_Score_Pre(Scores, i)}
    /\ Value \in ScoreValues
    /\ scpc = "call"
    /\ arr = <<>>
    /\ SearchOff
    /\ MidIdle
    /\ ConcIdle /\ ShiftIdle /\ MaxIdle /\ RestIdle

\* Scores (Index) := Value;
Set_Score_Assign_Next(S, I, V) == [S EXCEPT ![I + 1] = V]
Set_Score_Assign(S, I, V) == [S EXCEPT ![I] = V]

\* lines 24-27: the body
Set_Score ==
    /\ scpc = "call"
    /\ Scores' = Set_Score_Assign(Scores, Index, Value)
    /\ scpc' = "done"
    /\ UNCHANGED <<ScoresOld, Index, Value>>
    /\ UNCHANGED <<arr, target, checks, cvars, avars, mvars, tvars, svars, fvars, zvars>>

NextScore == Set_Score

SpecScore == InitScore /\ [][NextScore]_vars

---------------------------------------------------------------------------
(* Ada: function Find_Max (Arr : Number_Array) return Integer              *)
(* (03_arrays/arrays/example.adb, 30-43) and                               *)
(* C: int find_max(int arr[], int size) (03_arrays/arrays/example.c,       *)
(* 20-28), on the same elements                                            *)

\* #define ARRAY_SIZE 5; type Index_Type is range 1 .. 5
ARRAY_SIZE == 5

\* Numbers : Number_Array := (10, 25, 3, 47, 15)
TestNumbers == <<10, 25, 3, 47, 15>>

NumberArrays ==
    [1 .. ARRAY_SIZE -> (0 - FmVal) .. FmVal] \cup {TestNumbers}

InitMax ==
    /\ numbers \in NumberArrays
    /\ fpc = "call" /\ Max = 0 /\ FM_I = 1
    /\ cpc = "call" /\ max = 0 /\ fm_i = 0
    /\ arr = <<>>
    /\ SearchOff
    /\ MidIdle
    /\ ConcIdle /\ ShiftIdle /\ ScoreIdle /\ RestIdle

\* Max : Integer := Arr (Arr'First);
Find_Max_First_Zero(A) == 0
Find_Max_First(A) == A[1]

\* if Arr (I) > Max
Find_Max_Greater(a, mx) == a > mx

\* Find_Max writes its locals only
Find_Max_Frame ==
    /\ UNCHANGED <<numbers, cpc, max, fm_i>>
    /\ UNCHANGED <<arr, target, checks, cvars, avars, mvars, tvars, svars, scvars, zvars>>

\* lines 33-35: Max is the first element, the loop starts at Arr'First
Find_Max_Enter ==
    /\ fpc = "call"
    /\ fpc' = "loop"
    /\ Max' = Find_Max_First(numbers)
    /\ FM_I' = 1
    /\ Find_Max_Frame

\* lines 35-38: Arr (I) > Max
Find_Max_Update ==
    /\ fpc = "loop"
    /\ FM_I <= Len(numbers)
    /\ Find_Max_Greater(numbers[FM_I], Max)
    /\ Max' = numbers[FM_I]
    /\ FM_I' = FM_I + 1
    /\ UNCHANGED fpc
    /\ Find_Max_Frame

\* lines 35-38: Arr (I) <= Max
Find_Max_Keep ==
    /\ fpc = "loop"
    /\ FM_I <= Len(numbers)
    /\ ~Find_Max_Greater(numbers[FM_I], Max)
    /\ FM_I' = FM_I + 1
    /\ UNCHANGED <<fpc, Max>>
    /\ Find_Max_Frame

\* lines 41-42: return Max;
Find_Max_Return ==
    /\ fpc = "loop"
    /\ FM_I > Len(numbers)
    /\ fpc' = "done"
    /\ UNCHANGED <<Max, FM_I>>
    /\ Find_Max_Frame

\* int max = arr[0];
find_max_first(A) == A[1]

\* if (arr[i] > max)
find_max_greater(a, mx) == a > mx

\* find_max writes its locals only
find_max_frame ==
    /\ UNCHANGED <<numbers, fpc, Max, FM_I>>
    /\ UNCHANGED <<arr, target, checks, cvars, avars, mvars, tvars, svars, scvars, zvars>>

\* lines 21-22: max is arr[0], the loop starts at i = 1
find_max_enter ==
    /\ cpc = "call"
    /\ cpc' = "loop"
    /\ max' = find_max_first(numbers)
    /\ fm_i' = 1
    /\ find_max_frame

\* lines 22-24: arr[i] > max
find_max_update ==
    /\ cpc = "loop"
    /\ fm_i < Len(numbers)
    /\ find_max_greater(numbers[fm_i + 1], max)
    /\ max' = numbers[fm_i + 1]
    /\ fm_i' = fm_i + 1
    /\ UNCHANGED cpc
    /\ find_max_frame

\* lines 22-23: arr[i] <= max
find_max_keep ==
    /\ cpc = "loop"
    /\ fm_i < Len(numbers)
    /\ ~find_max_greater(numbers[fm_i + 1], max)
    /\ fm_i' = fm_i + 1
    /\ UNCHANGED <<cpc, max>>
    /\ find_max_frame

\* lines 22, 27: return max;
find_max_return ==
    /\ cpc = "loop"
    /\ ~(fm_i < Len(numbers))
    /\ cpc' = "done"
    /\ UNCHANGED <<max, fm_i>>
    /\ find_max_frame

NextMax ==
    \/ Find_Max_Enter
    \/ Find_Max_Update
    \/ Find_Max_Keep
    \/ Find_Max_Return
    \/ find_max_enter
    \/ find_max_update
    \/ find_max_keep
    \/ find_max_return

SpecMax == InitMax /\ [][NextMax]_vars

---------------------------------------------------------------------------
(* Ada: procedure Divide_With_Remainder (Dividend, Divisor : in Integer;   *)
(*                                  Quotient, Remainder : out Integer)     *)
(* (src/unnamed/part_000, 137-149 and 270-283)                             *)

Abs(x) == IF x < 0 THEN 0 - x ELSE x

\* Ada "/" on Integer truncates toward zero
Ada_Div(a, b) == IF b > 0 THEN DivInt(a, b) ELSE 0 - DivInt(a, 0 - b)

\* Ada "rem": the remainder of the truncating division, with the sign of a
Ada_Rem(a, b) == a - b * Ada_Div(a, b)

\* Dividend / Divisor leaves Integer: Integer'First / (-1)
Div_Overflows(a, b) == a = INT_MIN /\ b = 0 - 1

\* Divide_With_Remainder (17, 5, Quot, Rmdr) of the example, small operands
\* of both signs and the ends of Integer
Dividends == ((0 - DivVal) .. DivVal) \cup {17, INT_MIN, INT_MAX}
Divisors == ((0 - DivVal) .. DivVal) \cup {5}

\* Pre => Divisor /= 0 (line 140)
Divide_Pre(b) == b # 0

\* the callers honour the precondition
InitDiv ==
    /\ Dividend \in Dividends
    /\ Divisor \in {b \in Divisors : Divide_Pre(b)}
    /\ Quotient = 0 /\ Remainder = 0
    /\ dpc = "call"
    /\ arr = <<>>
    /\ SearchOff
    /\ MidIdle
    /\ ConcIdle /\ ShiftIdle /\ ScoreIdle /\ MaxIdle
    /\ IsIdle /\ CopyIdle /\ FillIdle /\ CShiftIdle /\ NaiveIdle

Divide_Frame ==
    UNCHANGED <<arr, target, checks, cvars, avars, mvars, xvars, isvars, cnvars,
        fbvars, sdvars, nvars>>

\* Quotient := Dividend / Divisor; Remainder := Dividend rem Divisor;
Divide_Body ==
    /\ dpc = "call"
    /\ ~Div_Overflows(Dividend, Divisor)
    /\ Quotient' = Ada_Div(Dividend, Divisor)
    /\ Remainder' = Ada_Rem(Dividend, Divisor)
    /\ dpc' = "done"
    /\ UNCHANGED <<Dividend, Divisor>>
    /\ Divide_Frame

\* the division overflows: Constraint_Error, no result
Divide_Overflow ==
    /\ dpc = "call"
    /\ Div_Overflows(Dividend, Divisor)
    /\ dpc' = "raised"
    /\ UNCHANGED <<Dividend, Divisor, Quotient, Remainder>>
    /\ Divide_Frame

NextDiv == Divide_Body \/ Divide_Overflow

SpecDiv == InitDiv /\ [][NextDiv]_vars

---------------------------------------------------------------------------
(* C: bool is_sorted(int arr[], int size) (src/unnamed/part_001, 55-62),   *)
(* on the array arr, next to the Ada expression function Is_Sorted         *)

\* the definition of a sorted sequence: every pair of indices i < j
Pairwise(a) == \A i \in 1 .. Len(a) : \A j \in 1 .. Len(a) : i < j => a[i] <= a[j]

\* the elements Is_Sorted can read: none when Arr'Length <= 1 (or else),
\* otherwise those of the quantified expression
Is_Sorted_Reads(a) ==
    IF Len(a) <= 1 THEN {}
    ELSE UNION {{I, I + 1} : I \in 1 .. Len(a) - 1}

\* arrays of every order, and the array of main
SortArrays == AnyArrays \cup {TestArr}

InitSorted ==
    /\ arr \in SortArrays
    /\ SearchOff
    /\ ipc = "call" /\ is_i = 0 /\ is_ret = FALSE /\ is_reads = {}
    /\ MidIdle
    /\ ConcIdle /\ ShiftIdle /\ ScoreIdle /\ MaxIdle
    /\ DivIdle /\ CopyIdle /\ FillIdle /\ CShiftIdle /\ NaiveIdle

\* for (...; i < size - 1; ...)
is_sorted_cond(i, n) == i < SubInt(n, 1)

\* if (arr[i] > arr[i + 1])
is_sorted_unordered_strict(a, b) == a >= b
is_sorted_unordered(a, b) == a > b

\* is_sorted writes its locals only
is_sorted_frame ==
    UNCHANGED <<arr, target, checks, cvars, avars, mvars, xvars, dvars, cnvars,
        fbvars, sdvars, nvars>>

\* line 56: int i = 0
is_sorted_enter ==
    /\ ipc = "call"
    /\ ipc' = "loop"
    /\ is_i' = 0
    /\ UNCHANGED <<is_ret, is_reads>>
    /\ is_sorted_frame

\* lines 56-58: arr[i] > arr[i + 1], return false
is_sorted_false ==
    /\ ipc = "loop"
    /\ is_sorted_cond(is_i, size)
    /\ \E a \in MemoryFor(is_i, 0) : \E b \in MemoryFor(is_i + 1, 0) :
        is_sorted_unordered(a, b)
    /\ is_reads' = is_reads \cup {is_i, is_i + 1}
    /\ is_ret' = FALSE
    /\ ipc' = "done"
    /\ UNCHANGED is_i
    /\ is_sorted_frame

\* lines 56-57: arr[i] <= arr[i + 1], i++
is_sorted_next ==
    /\ ipc = "loop"
    /\ is_sorted_cond(is_i, size)
    /\ \E a \in MemoryFor(is_i, 0) : \E b \in MemoryFor(is_i + 1, 0) :
        ~is_sorted_unordered(a, b)
    /\ is_reads' = is_reads \cup {is_i, is_i + 1}
    /\ is_i' = is_i + 1
    /\ UNCHANGED <<ipc, is_ret>>
    /\ is_sorted_frame

\* lines 56, 61: the loop ends, return true
is_sorted_true ==
    /\ ipc = "loop"
    /\ ~is_sorted_cond(is_i, size)
    /\ is_ret' = TRUE
    /\ ipc' = "done"
    /\ UNCHANGED <<is_i, is_reads>>
    /\ is_sorted_frame

NextSorted ==
    \/ is_sorted_enter
    \/ is_sorted_false
    \/ is_sorted_next
    \/ is_sorted_true

SpecSorted == InitSorted /\ [][NextSorted]_vars

---------------------------------------------------------------------------
(* Ada: procedure Copy_Name (Dest : in out Name_String; Src : String)      *)
(* (05_buffer_safety/example.adb, 34-54).  Characters are their codes.     *)

\* Max_Name_Len : constant := 64; Name_String is String (1 .. Max_Name_Len)
Max_Name_Len == 64

\* ' '
Space == 32

Dest_First == 1
Dest_Last == Len(Dest)

\* Src'Last
Src_Last == Src_First + Len(Src) - 1

\* Test_String_Copy: Short_Name : constant String := "Ada SPARK"
Short_Name == <<65, 100, 97, 32, 83, 80, 65, 82, 75>>

\* a source as long as the destination
Full_Name == [i \in 1 .. Max_Name_Len |-> 64 + (i % CopyVal) + 1]

CopySources ==
    UNION {[1 .. n -> 65 .. 64 + CopyVal] : n \in 0 .. CopyLen}
        \cup {Short_Name, Full_Name}

\* Test_String_Copy: Name : Name_String := (others => ' '), and a
\* destination that holds other characters on entry
CopyDests ==
    {[i \in 1 .. Max_Name_Len |-> c] : c \in {Space, 65 + CopyVal}}

\* Pre => Src'Length <= Dest'Length
Copy_Name_Pre(D, S) == Len(S) <= Len(D)

\* the callers honour the precondition
InitCopy ==
    /\ Dest \in CopyDests
    /\ Src \in {S \in CopySources : Copy_Name_Pre(Dest, S)}
    /\ Src_First \in 1 .. CopyFirst
    /\ cnpc = "loop"
    /\ Copy_I = Dest_First
    /\ CopyReads = {} /\ CopyWrites = {}
    /\ arr = <<>>
    /\ SearchOff
    /\ MidIdle
    /\ ConcIdle /\ ShiftIdle /\ ScoreIdle /\ MaxIdle
    /\ DivIdle /\ IsIdle /\ FillIdle /\ CShiftIdle /\ NaiveIdle

\* if I - Dest'First < Src'Length
Copy_InSrc_Incl(I) == I - Dest_First <= Len(Src)
Copy_InSrc(I) == I - Dest_First < Len(Src)

\* Src'First + (I - Dest'First)
Copy_SrcIndex(I) == Src_First + (I - Dest_First)

Copy_Frame ==
    UNCHANGED <<arr, target, checks, cvars, avars, mvars, xvars, dvars, isvars,
        fbvars, sdvars, nvars>>

\* lines 41-43: Dest (I) := Src (Src'First + (I - Dest'First)); the index
\* check of Src raises Constraint_Error when the index is not in Src'Range
Copy_Char ==
    /\ cnpc = "loop"
    /\ Copy_I <= Dest_Last
    /\ Copy_InSrc(Copy_I)
    /\ LET K == Copy_SrcIndex(Copy_I) IN
        /\ CopyReads' = CopyReads \cup {K}
        /\ IF K \in Src_First .. Src_Last
           THEN /\ Dest' = [Dest EXCEPT ![Copy_I] = Src[K - Src_First + 1]]
                /\ CopyWrites' = CopyWrites \cup {Copy_I}
                /\ Copy_I' = Copy_I + 1
                /\ UNCHANGED cnpc
           ELSE /\ cnpc' = "raised"
                /\ UNCHANGED <<Dest, CopyWrites, Copy_I>>
    /\ UNCHANGED <<Src, Src_First>>
    /\ Copy_Frame

\* lines 41-45: Dest (I) := ' ';
Copy_Pad ==
    /\ cnpc = "loop"
    /\ Copy_I <= Dest_Last
    /\ ~Copy_InSrc(Copy_I)
    /\ Dest' = [Dest EXCEPT ![Copy_I] = Space]
    /\ CopyWrites' = CopyWrites \cup {Copy_I}
    /\ Copy_I' = Copy_I + 1
    /\ UNCHANGED <<cnpc, Src, Src_First, CopyReads>>
    /\ Copy_Frame

\* lines 41, 52-53: the loop has run over Dest'Range
Copy_Exit ==
    /\ cnpc = "loop"
    /\ Copy_I > Dest_Last
    /\ cnpc' = "done"
    /\ UNCHANGED <<Dest, Src, Src_First, Copy_I, CopyReads, CopyWrites>>
    /\ Copy_Frame

NextCopy == Copy_Char \/ Copy_Pad \/ Copy_Exit

SpecCopy == InitCopy /\ [][NextCopy]_vars

---------------------------------------------------------------------------
(* C: void fill_buffer(char *buf, int size, char value)                    *)
(* (05_buffer_safety/example.c, 22-27).  buf[i] is element i + 1 of the    *)
(* sequence; a write outside the object is undefined behaviour: it is      *)
(* recorded, and the run either goes on or traps.                          *)

\* main: char buffer[10]; fill_buffer(buffer, 10, 'A');
MainBufferSize == 10
MainFillValue == 65

\* the buffers hold no value yet (0 stands for it)
FillBuffers ==
    {[i \in 1 .. n |-> 0] : n \in (0 .. FillLen) \cup {MainBufferSize}}

FillValues == {MainFillValue, MainFillValue + 1}

\* the outcomes of an access outside the object
OutOfBounds == {"goes on", "traps"}

InitFill ==
    /\ fb_buf \in FillBuffers
    /\ fb_entry = fb_buf
    /\ fb_size \in 0 .. Len(fb_buf)
    /\ fb_value \in FillValues
    /\ fbpc = "loop" /\ fb_i = 0 /\ fb_writes = {}
    /\ arr = <<>>
    /\ SearchOff
    /\ MidIdle
    /\ ConcIdle /\ ShiftIdle /\ ScoreIdle /\ MaxIdle
    /\ DivIdle /\ IsIdle /\ CopyIdle /\ CShiftIdle /\ NaiveIdle

\* for (...; i <= size; ...)
fill_cond_Less(i, n) == i < n
fill_cond(i, n) == i <= n

fill_frame ==
    UNCHANGED <<arr, target, checks, cvars, avars, mvars, xvars, dvars, isvars,
        cnvars, sdvars, nvars>>

\* lines 23-24: buf[i] = value; i++.  The write outside the object
\* (undefined behaviour) either goes on or traps.  A build that stores the
\* bytes of the loop in blocks traps in the block that holds buf[i]: the
\* object then has the bytes of the blocks stored before it, the first k,
\* and its values at the call in the rest.
fill_write ==
    /\ fbpc = "loop"
    /\ fill_cond(fb_i, fb_size)
    /\ IF fb_i \in 0 .. Len(fb_buf) - 1
       THEN /\ fb_buf' = [fb_buf EXCEPT ![fb_i + 1] = fb_value]
            /\ fb_writes' = fb_writes \cup {fb_i}
            /\ fb_i' = fb_i + 1
            /\ UNCHANGED fbpc
       ELSE \E o \in OutOfBounds :
            IF o = "traps"
            THEN \E k \in 0 .. Len(fb_buf) :
                 /\ fbpc' = "trapped"
                 /\ fb_buf' = [j \in 1 .. Len(fb_buf) |->
                                 IF j <= k THEN fb_value ELSE fb_entry[j]]
                 /\ fb_writes' = (0 .. k - 1) \cup {fb_i}
                 /\ UNCHANGED fb_i
            ELSE /\ fb_writes' = fb_writes \cup {fb_i}
                 /\ fb_i' = fb_i + 1
                 /\ UNCHANGED <<fbpc, fb_buf>>
    /\ UNCHANGED <<fb_entry, fb_size, fb_value>>
    /\ fill_frame

\* lines 23, 26: the loop ends
fill_exit ==
    /\ fbpc = "loop"
    /\ ~fill_cond(fb_i, fb_size)
    /\ fbpc' = "done"
    /\ UNCHANGED <<fb_buf, fb_entry, fb_size, fb_value, fb_i, fb_writes>>
    /\ fill_frame

NextFill == fill_write \/ fill_exit

SpecFill == InitFill /\ [][NextFill]_vars

---------------------------------------------------------------------------
(* C: void shift_data(char *buf, int size, int offset)                     *)
(* (05_buffer_safety/example.c, 35-40), called with the size of the object *)

CShiftBuffers ==
    UNION {[1 .. n -> 65 .. 64 + CShiftVal] : n \in 1 .. CShiftLen}

\* the values of a char (signed, 8 bits): what a read outside the object
\* can give
CHAR_MIN == 0 - 128
CHAR_MAX == 127
Chars == CHAR_MIN .. CHAR_MAX

\* int offset: one below 0, and 0 .. n + CShiftOff
CShiftOffsets(n) == {0 - 1} \cup (0 .. n + CShiftOff)

InitCShift ==
    /\ sd_buf \in CShiftBuffers
    /\ sd_size = Len(sd_buf)
    /\ sd_offset \in CShiftOffsets(Len(sd_buf))
    /\ sdpc = "loop" /\ sd_i = 0 /\ sd_reads = {} /\ sd_writes = {}
    /\ arr = <<>>
    /\ SearchOff
    /\ MidIdle
    /\ ConcIdle /\ ShiftIdle /\ ScoreIdle /\ MaxIdle
    /\ DivIdle /\ IsIdle /\ CopyIdle /\ FillIdle /\ NaiveIdle

\* size - offset, on int
shift_bound_Unsigned(n, off) == IF n < off THEN INT_MAX ELSE SubInt(n, off)
shift_bound(n, off) == SubInt(n, off)

\* for (...; i < size - offset; ...)
shift_cond(i, n, off) == i < shift_bound(n, off)

\* buf[k] lies in the object
CShiftIn(k) == k \in 0 .. Len(sd_buf) - 1

shift_frame ==
    UNCHANGED <<arr, target, checks, cvars, avars, mvars, xvars, dvars, isvars,
        cnvars, fbvars, nvars>>

\* lines 36-37: buf[i] = buf[i + offset]; i++.  The read comes first:
\* outside the object it traps, and then nothing is written, or it gives
\* any char.  The write comes second: outside the object it traps or goes
\* on, and changes nothing of the object.
shift_copy ==
    /\ sdpc = "loop"
    /\ shift_cond(sd_i, sd_size, sd_offset)
    /\ LET k == AddInt(sd_i, sd_offset) IN
        /\ sd_reads' = sd_reads \cup {k}
        /\ \E r \in (IF CShiftIn(k) THEN {"goes on"} ELSE OutOfBounds) :
            IF r = "traps"
            THEN /\ sdpc' = "trapped"
                 /\ UNCHANGED <<sd_buf, sd_i, sd_writes>>
            ELSE /\ sd_writes' = sd_writes \cup {sd_i}
                 /\ \E c \in (IF CShiftIn(k) THEN {sd_buf[k + 1]}
                               ELSE Chars) :
                     \E w \in (IF CShiftIn(sd_i) THEN {"goes on"}
                               ELSE OutOfBounds) :
                         /\ sdpc' = IF w = "traps" THEN "trapped" ELSE sdpc
                         /\ sd_i' = IF w = "traps" THEN sd_i ELSE sd_i + 1
                         /\ sd_buf' = IF CShiftIn(sd_i)
                                      THEN [sd_buf EXCEPT ![sd_i + 1] = c]
                                      ELSE sd_buf
    /\ UNCHANGED <<sd_size, sd_offset>>
    /\ shift_frame

\* lines 36, 39: the loop ends
shift_exit ==
    /\ sdpc = "loop"
    /\ ~shift_cond(sd_i, sd_size, sd_offset)
    /\ sdpc' = "done"
    /\ UNCHANGED <<sd_buf, sd_size, sd_offset, sd_i, sd_reads, sd_writes>>
    /\ shift_frame

NextCShift == shift_copy \/ shift_exit

SpecCShift == InitCShift /\ [][NextCShift]_vars

---------------------------------------------------------------------------
(* The midpoint computation of line 16 on bounds up to the largest index   *)

\* the bounds of the notes' overflow example: 0x50000000 and 0x60000000
ExampleLeft == 1342177280
ExampleRight == 1610612736

MidBounds ==
    (0 .. MidSpread)
        \cup {Max_Size - k : k \in 0 .. MidSpread}
        \cup {INT_MAX - k : k \in 0 .. MidSpread}
        \cup {ExampleLeft, ExampleRight}

\* no search runs in the midpoint specification
SearchIdle ==
    /\ arr = <<>> /\ target = 0 /\ checks = FALSE
    /\ pc = "idle" /\ left = 0 /\ right = 0 /\ mid = 0 /\ result = 0
    /\ reads = {} /\ iters = 0
    /\ pcA = "idle" /\ Left = 1 /\ Right = 0 /\ Mid = 1 /\ Result = 0
    /\ Reads = {} /\ Iters = 0

\* the loop is entered with left <= right (line 15)
InitMid ==
    /\ lo \in MidBounds
    /\ hi \in MidBounds
    /\ LoopCond(lo, hi)
    /\ mpc = "start"
    /\ diff = 0 /\ half = 0 /\ m = 0 /\ ovf = FALSE
    /\ npc = "start" /\ mn = 0 /\ ovfn = FALSE
    /\ SearchIdle
    /\ ConcIdle /\ ShiftIdle /\ ScoreIdle /\ MaxIdle /\ RestIdle

\* line 16
mid_compute ==
    /\ mpc = "start"
    /\ diff' = MidDiff(lo, hi)
    /\ half' = MidHalf(lo, hi)
    /\ m' = Midpoint(lo, hi)
    /\ ovf' = MidOverflows(lo, hi)
    /\ mpc' = "done"
    /\ UNCHANGED <<lo, hi, npc, mn, ovfn>>
    /\ UNCHANGED <<arr, target, checks, cvars, avars, xvars, zvars>>

\* binary_search_naive, line 38: int mid = (left + right) / 2;
\* the sum wraps when it leaves the int range (two's complement)
NaiveMid_Wide(l, r) ==
    (l \div 2) + (r \div 2) + ((l % 2) + (r % 2)) \div 2
NaiveMid_Up(l, r) == DivInt(AddInt(AddInt(l, r), 1), 2)
NaiveMid(l, r) == DivInt(AddInt(l, r), 2)

\* whether left + right leaves the int range
NaiveOverflows(l, r) == ~AddFits(l, r)

\* the wrapped sum halved by an arithmetic shift (rounds down): what an
\* optimising build makes of line 38
NaiveMidShift(l, r) == AddInt(l, r) \div 2

\* the values line 38 can give: builds differ in how the (wrapped) sum is
\* halved, toward zero or down.  The two agree when the sum is not negative;
\* a negative sum comes with a signed overflow, in this pass or (a negative
\* left) in an earlier one, which is undefined behaviour.
NaiveMids(l, r) == {NaiveMid(l, r), NaiveMidShift(l, r)}

\* binary_search_naive, line 38, on the same bounds
naive_compute ==
    /\ npc = "start"
    /\ mn' \in NaiveMids(lo, hi)
    /\ ovfn' = NaiveOverflows(lo, hi)
    /\ npc' = "done"
    /\ UNCHANGED <<lo, hi, mpc, diff, half, m, ovf>>
    /\ UNCHANGED <<arr, target, checks, cvars, avars, xvars, zvars>>

NextMid == mid_compute \/ naive_compute

SpecMid == InitMid /\ [][NextMid]_vars

---------------------------------------------------------------------------
(* C: int binary_search_naive(int arr[], int size, int target)             *)
(* (src/unnamed/part_001, 33-52), next to binary_search on the same array  *)
(* and target.  The two functions differ in the midpoint statement only.   *)

NaiveArrays == AnyArrays \cup {TestArr}

NaiveTargets == AnyTargets \cup TestTargets

InitNaive ==
    /\ arr \in NaiveArrays
    /\ target \in NaiveTargets
    /\ checks = FALSE
    /\ pc = "call" /\ left = 0 /\ right = 0 /\ mid = 0 /\ result = 0
    /\ reads = {} /\ iters = 0
    /\ pcA = "idle" /\ Left = 1 /\ Right = 0 /\ Mid = 1 /\ Result = 0
    /\ Reads = {} /\ Iters = 0
    /\ n_pc = "call" /\ n_left = 0 /\ n_right = 0 /\ n_mid = 0
    /\ n_result = 0 /\ n_reads = {} /\ n_iters = 0 /\ n_ovf = FALSE
    /\ MidIdle
    /\ ConcIdle /\ ShiftIdle /\ ScoreIdle /\ MaxIdle
    /\ DivIdle /\ IsIdle /\ CopyIdle /\ FillIdle /\ CShiftIdle

\* binary_search_naive writes its locals only
naive_frame ==
    UNCHANGED <<arr, target, checks, cvars, avars, mvars, xvars, dvars, isvars,
        cnvars, fbvars, sdvars>>

\* lines 34-35: the locals are set up
naive_enter ==
    /\ n_pc = "call"
    /\ n_pc' = "loop"
    /\ n_left' = InitLeft
    /\ n_right' = InitRight(size)
    /\ UNCHANGED <<n_mid, n_result, n_reads, n_iters, n_ovf>>
    /\ naive_frame

\* lines 37-49: one pass.  The midpoint is one of the values line 38 can
\* give; a read outside the array (undefined behaviour) traps or gives some
\* int, and the comparison of the value read selects the branch.
naive_pass ==
    /\ n_pc = "loop"
    /\ LoopCond(n_left, n_right)
    /\ \E i \in NaiveMids(n_left, n_right) :
        /\ n_mid' = i
        /\ n_reads' = n_reads \cup {i}
        /\ \E o \in (IF InBounds(i) THEN {"goes on"} ELSE OutOfBounds) :
            IF o = "traps"
            THEN /\ n_pc' = "trapped"
                 /\ UNCHANGED <<n_left, n_right, n_result>>
            ELSE \E v \in MemoryAt(i) :
                 IF IsMatch(v, target)
                 THEN /\ n_result' = FoundResult(i)
                      /\ n_pc' = "done"
                      /\ UNCHANGED <<n_left, n_right>>
                 ELSE IF IsLess(v, target)
                 THEN /\ n_left' = NextLeft(i)
                      /\ UNCHANGED <<n_pc, n_right, n_result>>
                 ELSE /\ n_right' = NextRight(i)
                      /\ UNCHANGED <<n_pc, n_left, n_result>>
    /\ n_ovf' = (n_ovf \/ NaiveOverflows(n_left, n_right))
    /\ n_iters' = Count(n_iters)
    /\ naive_frame

\* lines 37, 51: the loop ends, return -1
naive_exit ==
    /\ n_pc = "loop"
    /\ ~LoopCond(n_left, n_right)
    /\ n_result' = NotFound
    /\ n_pc' = "done"
    /\ UNCHANGED <<n_left, n_right, n_mid, n_reads, n_iters, n_ovf>>
    /\ naive_frame

binary_search_naive ==
    \/ naive_enter
    \/ naive_pass
    \/ naive_exit

NextNaive == binary_search \/ binary_search_naive

SpecNaive == InitNaive /\ [][NextNaive]_vars

---------------------------------------------------------------------------
(* Properties *)

\* the indices (of the sequence) that hold the target
Occurrences == {I \in 1 .. Len(arr) : arr[I] = target}

\* C1: on a sorted sequence the value returned is the not-found sentinel
\* (-1 in C, 0 in Ada) or a valid index holding the target, and nothing else;
\* a target that is absent yields the sentinel.
C1_FoundOrSentinel ==
    /\ pc = "done" =>
        /\ \/ result = -1
           \/ (result >= 0 /\ result < Len(arr) /\ arr[result + 1] = target)
        /\ Occurrences = {} => result = -1
    /\ pcA = "done" =>
        /\ \/ Result = 0
           \/ (Result >= 1 /\ Result <= Len(arr) /\ arr[Result] = target)
        /\ Occurrences = {} => Result = 0

\* C1: both searches found the target after more than one pass
C1_Witness ==
    /\ pc = "done" /\ result >= 0 /\ iters >= 2
    /\ pcA = "done" /\ Result >= 1 /\ Iters >= 2

\* C2: on a sorted sequence a target that occurs is found at an index holding
\* it, and the sentinel is returned only when no index holds the target.
C2_PresentIsFound ==
    /\ pc = "done" =>
        /\ Occurrences # {} => (result + 1) \in Occurrences
        /\ result = -1 => \A I \in 1 .. Len(arr) : arr[I] # target
    /\ pcA = "done" =>
        /\ Occurrences # {} => Result \in Occurrences
        /\ Result = 0 => \A I \in 1 .. Len(arr) : arr[I] # target

\* C2: the target is an element and was found by the third pass
C2_Witness ==
    /\ Occurrences # {}
    /\ pc = "done" /\ (result + 1) \in Occurrences /\ iters = 3
    /\ pcA = "done" /\ Result \in Occurrences /\ Iters = 3

\* C3: every call on a sorted sequence of any length ends: the C loop is left
\* by the return of mid or with left > right; the Ada call ends the same way,
\* or before the loop when its precondition is executed and fails.
C3_Terminates ==
    /\ <>(pc = "done" /\ (result >= 0 \/ left > right))
    /\ <>(\/ pcA = "done" /\ (Result >= 1 \/ Left > Right)
          \/ pcA = "raised")

\* C3: both loops were left with the bounds crossed after several passes
C3_Witness ==
    /\ pc = "done" /\ result = -1 /\ left > right /\ iters >= 3
    /\ pcA = "done" /\ Result = 0 /\ Left > Right /\ Iters >= 3

\* C4: for 0 <= low <= high <= MAX no operation of the midpoint leaves
\* [0, MAX], and low <= mid <= high; mid = low when low = high.
C4_MidInRange ==
    mpc = "done" =>
        /\ ~ovf
        /\ diff >= 0 /\ diff <= INT_MAX
        /\ half >= 0 /\ half <= INT_MAX
        /\ m >= 0 /\ m <= INT_MAX
        /\ lo <= m /\ m <= hi
        /\ lo = hi => m = lo
        /\ hi <= Max_Size => m <= Max_Size

\* C4: the midpoint was computed with both bounds at the largest index
C4_Witness ==
    mpc = "done" /\ lo = INT_MAX /\ hi = INT_MAX /\ m = INT_MAX

\* C5: at the top of every pass and at the exit, every index below low holds
\* a value below the target and every index above high a value above it.
C5_ExcludedRanges ==
    /\ pc \in {"loop", "done"} =>
        \A i \in 0 .. Len(arr) - 1 :
            /\ i < left => arr[i + 1] < target
            /\ i > right => arr[i + 1] > target
    /\ pcA \in {"loop", "done"} =>
        \A I \in 1 .. Len(arr) :
            /\ I < Left => arr[I] < target
            /\ I > Right => arr[I] > target

\* C5: a pass starts with elements excluded on both sides
C5_Witness ==
    /\ pc = "loop" /\ left > 0 /\ right < Len(arr) - 1 /\ left <= right
    /\ pcA = "loop" /\ Left > 1 /\ Right < Len(arr) /\ Left <= Right

\* C6: every pass that does not return makes high - low strictly smaller,
\* for any sequence and target.
C6_WidthDecreases ==
    /\ [][(bs_right \/ bs_left) => (right' - left' < right - left)]_vars
    /\ [][(Search_GoRight \/ Search_GoLeft)
            => (Right' - Left' < Right - Left)]_vars

\* C6: two passes did not return and the window is not yet empty
C6_Witness ==
    /\ pc = "loop" /\ iters >= 2 /\ left <= right
    /\ right - left < Len(arr) - 1

\* C7: on the empty sequence the search returns the sentinel, never enters
\* the loop and reads no element.
C7_EmptyNotFound ==
    Len(arr) = 0 =>
        /\ pc = "done" => result = -1
        /\ reads = {} /\ iters = 0
        /\ pcA # "raised"
        /\ pcA = "done" => Result = 0
        /\ Reads = {} /\ Iters = 0

\* C8: on a one-element sequence the only index is returned when the element
\* is the target and the sentinel otherwise; [5], 5 gives index 0 (Ada 1) and
\* [5], 3 gives the sentinel.
C8_SingleElement ==
    Len(arr) = 1 =>
        /\ pc = "done" => result = (IF arr[1] = target THEN 0 ELSE -1)
        /\ pcA = "done" => Result = (IF arr[1] = target THEN 1 ELSE 0)
        /\ (arr = <<5>> /\ target = 5 /\ pc = "done") => result = 0
        /\ (arr = <<5>> /\ target = 3 /\ pc = "done") => result = -1

\* C8: [5] was searched for 5
C8_Witness ==
    /\ arr = <<5>> /\ target = 5
    /\ pc = "done" /\ result = 0 /\ iters = 1
    /\ pcA = "done" /\ Result = 1 /\ Iters = 1

\* C9: when several elements equal the target, the index returned holds the
\* target; [2,2,2,2], 2 gives an index in [0, 4).
C9_Duplicates ==
    Cardinality(Occurrences) >= 2 =>
        /\ pc = "done" =>
            result >= 0 /\ result < Len(arr) /\ arr[result + 1] = target
        /\ pcA = "done" =>
            Result >= 1 /\ Result <= Len(arr) /\ arr[Result] = target
        /\ (arr = <<2, 2, 2, 2>> /\ pc = "done") => result \in 0 .. 3

\* C9: [2,2,2,2] was searched for 2 and the index returned is neither the
\* first nor the last occurrence
C9_Witness ==
    /\ arr = <<2, 2, 2, 2>> /\ target = 2
    /\ pc = "done" /\ result = 1
    /\ pcA = "done" /\ Result = 2

\* C10: on [1,3,...,19] the target 7 is found at 3, 1 at 0 (Ada 4 and 1),
\* and 20 and -5 are not found.
C10_TestArray ==
    arr = TestArr =>
        /\ pc = "done" =>
            /\ target = 7 => result = 3
            /\ target = 1 => result = 0
            /\ target = 20 => result = -1
            /\ target = -5 => result = -1
        /\ pcA = "done" =>
            /\ target = 7 => Result = 4
            /\ target = 1 => Result = 1
            /\ target = 20 => Result = 0
            /\ target = -5 => Result = 0

\* C10: the test array was searched for 7
C10_Witness ==
    /\ arr = TestArr /\ target = 7
    /\ pc = "done" /\ result = 3
    /\ pcA = "done" /\ Result = 4

\* C11: no step of a search changes the sequence, its length or the target;
\* a search writes its own locals only.
C11_InputUnchanged ==
    /\ [][arr' = arr /\ Len(arr') = Len(arr) /\ target' = target]_vars
    /\ [][binary_search => UNCHANGED avars]_vars
    /\ [][Search => UNCHANGED cvars]_vars

\* C11: both searches ended after reading several elements without finding
\* the target
C11_Witness ==
    /\ pc = "done" /\ result = -1 /\ Cardinality(reads) >= 2
    /\ pcA = "done" /\ Result = 0 /\ Cardinality(Reads) >= 2

\* C13: on every finite sequence, sorted or not, the call ends and returns the
\* sentinel or an index of the sequence, and every element read is at an
\* index of the sequence (the Ada call ends by raising when its precondition
\* is executed and fails).
C13_TotalOnAnyInput ==
    /\ <>(pc = "done")
    /\ <>(pcA = "done" \/ (checks /\ pcA = "raised"))
    /\ [](reads \subseteq 0 .. Len(arr) - 1)
    /\ [](Reads \subseteq 1 .. Len(arr))
    /\ [](pc = "done" => result = -1 \/ (result >= 0 /\ result < Len(arr)))
    /\ [](pcA = "done" => Result >= 0 /\ Result <= Len(arr))

\* C13: an unsorted sequence was searched in several passes
C13_Witness ==
    /\ ~Is_Sorted(arr)
    /\ pc = "done" /\ Cardinality(reads) >= 2
    /\ pcA = "done" /\ Cardinality(Reads) >= 2

\* C14: a target that occurs is reported absent only when the sequence is not
\* sorted, and then without any read outside the sequence; [3,1,1] searched
\* for 3 gives the sentinel.
C14_SilentWrongAnswer ==
    /\ (pc = "done" /\ result = -1 /\ Occurrences # {}) =>
        ~Is_Sorted(arr) /\ reads \subseteq 0 .. Len(arr) - 1
    /\ (pcA = "done" /\ Result = 0 /\ Occurrences # {}) =>
        ~Is_Sorted(arr) /\ Reads \subseteq 1 .. Len(arr)
    /\ (arr = <<3, 1, 1>> /\ target = 3 /\ pc = "done") => result = -1

\* C14: [3,1,1] holds 3 and the search for 3 returned the sentinel
C14_Witness ==
    /\ arr = <<3, 1, 1>> /\ target = 3 /\ Occurrences = {1}
    /\ pc = "done" /\ result = -1

\* C15: whenever left + right exceeds INT_MAX (0 <= left <= right <= INT_MAX)
\* the naive midpoint overflows and wraps to a negative mid, while
\* left + (right - left) / 2 on the same bounds lies in [left, right].
C15_NaiveOverflows ==
    /\ (npc = "done" /\ lo > INT_MAX - hi) => ovfn /\ mn < 0
    /\ (npc = "done" /\ lo <= INT_MAX - hi) => ~ovfn /\ lo <= mn /\ mn <= hi
    /\ mpc = "done" => ~ovf /\ lo <= m /\ m <= hi

\* C15: the bounds of the notes, 0x50000000 and 0x60000000
C15_Witness ==
    /\ lo = ExampleLeft /\ hi = ExampleRight
    /\ npc = "done" /\ ovfn /\ mn < 0
    /\ mpc = "done" /\ lo <= m /\ m <= hi

RECURSIVE FloorLog2(_)
\* floor(log2(n)) for n >= 1
FloorLog2(n) == IF n <= 1 THEN 0 ELSE 1 + FloorLog2(n \div 2)

\* the most passes the claim allows on a sequence of length n
MaxPasses(n) == IF n = 0 THEN 0 ELSE FloorLog2(n) + 1

\* C16: the loop body runs at most floor(log2(N)) + 1 times (0 times for
\* N = 0), and every pass that does not return at least halves the number of
\* indices in [low, high].
C16_LogSteps ==
    /\ [](iters <= MaxPasses(Len(arr)))
    /\ [](Iters <= MaxPasses(Len(arr)))
    /\ [][(bs_right \/ bs_left)
            => (right' - left' + 1) * 2 <= right - left + 1]_vars
    /\ [][(Search_GoRight \/ Search_GoLeft)
            => (Right' - Left' + 1) * 2 <= Right - Left + 1]_vars

\* C16: the test array of length 10 took floor(log2(10)) + 1 = 4 passes
C16_Witness ==
    /\ arr = TestArr
    /\ pc = "done" /\ iters = 4
    /\ pcA = "done" /\ Iters = 4

\* C17: when the contracts are executed, the call raises exactly when the
\* sequence is not sorted: it never raises on a sorted sequence.
C17_CheckedPre ==
    (checks /\ pcA # "call") => (pcA = "raised" <=> ~Is_Sorted(arr))

\* C12: with the steps of the calls interleaved in any order, every call
\* returns the value it returns when it runs alone on the same sequence.
C12_ConcurrentCalls ==
    \A t \in Calls : tpc[t] = "done" => tresult[t] = Alone(ttarget[t])

\* C12: two calls with different targets ran interleaved: the first has
\* returned an index while the second is in the middle of its loop
C12_Witness ==
    /\ ttarget[1] # ttarget[2]
    /\ tpc[1] = "done" /\ tresult[1] >= 0
    /\ tpc[2] = "loop" /\ tleft[2] > 0

\* C18: after Shift_Data with Offset < Buf'Length every Buf (I), I in
\* Buf'First .. Buf'Last - Offset, is the value Buf (I + Offset) had before
\* the call; during the in-place ascending loop this holds of the elements
\* already written and the others still have their old value.
C18_ShiftPost ==
    /\ spc = "done" =>
        \A I \in 1 .. Len(Buf) - Offset : Buf[I] = BufOld[I + Offset]
    /\ spc = "loop" =>
        /\ \A J \in 1 .. Shift_I - 1 : Buf[J] = BufOld[J + Offset]
        /\ \A J \in Shift_I .. Len(Buf) : Buf[J] = BufOld[J]

\* C18: Test_Shift: the buffer A..J shifted left by 3 starts with D and has J
\* at index 7; source and destination ranges overlap
C18_Witness ==
    /\ spc = "done" /\ BufOld = TestBuffer /\ Offset = 3
    /\ Buf[1] = 68 /\ Buf[7] = 74 /\ Buf # BufOld
    /\ Offset < Len(Buf) - Offset

\* C19: after Set_Score with Index in Scores'Range, Scores (Index) = Value
\* and every other element, and the length, are what they were before.
C19_SetScorePost ==
    scpc = "done" =>
        /\ Len(Scores) = Len(ScoresOld)
        /\ Scores[Index] = Value
        /\ \A I \in 1 .. Len(Scores) : I # Index => Scores[I] = ScoresOld[I]

\* C19: Test_Array_Bounds: Set_Score (Scores, 3, 100) on five zeros
C19_Witness ==
    /\ scpc = "done" /\ ScoresOld = TestScores /\ Index = 3 /\ Value = 100
    /\ Scores = <<0, 0, 100, 0, 0>>

\* C20: the value Find_Max returns is greater than or equal to every element
\* and equal to at least one element, and the C find_max returns the same
\* value on the same elements.
C20_FindMax ==
    /\ fpc = "done" =>
        /\ \A I \in 1 .. Len(numbers) : Max >= numbers[I]
        /\ \E I \in 1 .. Len(numbers) : Max = numbers[I]
    /\ cpc = "done" =>
        /\ \A I \in 1 .. Len(numbers) : max >= numbers[I]
        /\ \E I \in 1 .. Len(numbers) : max = numbers[I]
    /\ (fpc = "done" /\ cpc = "done") => Max = max

\* C20: both functions returned 47 on the test's (10, 25, 3, 47, 15)
C20_Witness ==
    /\ numbers = TestNumbers
    /\ fpc = "done" /\ Max = 47
    /\ cpc = "done" /\ max = 47

\* C21: after Divide_With_Remainder with Divisor /= 0,
\* Quotient * Divisor + Remainder = Dividend and
\* Remainder in 0 .. abs Divisor - 1, for every Dividend.
C21_DivideRemainderPost ==
    dpc = "done" =>
        /\ Quotient * Divisor + Remainder = Dividend
        /\ Remainder \in 0 .. Abs(Divisor) - 1

\* C22: while the loop runs, at the top of every iteration Left and Right
\* are indices of the array, the midpoint computed lies in Left .. Right, and
\* every element read is at an index of the array (Ada and C).
C22_LoopBounds ==
    /\ (pcA = "loop" /\ Left <= Right) =>
        /\ Left \in Arr_Range
        /\ Right \in Arr_Range
        /\ Search_Mid(Left, Right) \in Left .. Right
    /\ (pc = "loop" /\ LoopCond(left, right)) =>
        /\ InBounds(left)
        /\ InBounds(right)
        /\ Midpoint(left, right) \in left .. right
    /\ Reads \subseteq Arr_Range
    /\ \A i \in reads : InBounds(i)
    /\ iters >= 1 => mid \in reads
    /\ Iters >= 1 => Mid \in Reads

\* C22: the test array searched for 10, after two passes both bounds have
\* moved and the loop still runs
C22_Witness ==
    /\ arr = TestArr /\ target = 10
    /\ pcA = "loop" /\ Left = 6 /\ Right = 7 /\ Reads = {5, 8}
    /\ pc = "loop" /\ left = 5 /\ right = 6 /\ reads = {4, 7}

\* C23: once the locals are set, Left <= Right + 1 in every state, and when
\* the loop has ended without a match Left = Right + 1 (Ada and C, on sorted
\* and unsorted arrays).
C23_BoundsCross ==
    /\ pcA \in {"loop", "done"} => Left <= Right + 1
    /\ pc \in {"loop", "done"} => left <= right + 1
    /\ (pcA = "done" /\ Result = Search_NotFound) => Left = Right + 1
    /\ (pc = "done" /\ result = NotFound) => left = right + 1

\* C23: both loops ended without a match after several passes, the bounds
\* crossed by one
C23_Witness ==
    /\ pcA = "done" /\ Result = Search_NotFound /\ Iters >= 2
    /\ Left = Right + 1 /\ Left > 1
    /\ pc = "done" /\ result = NotFound /\ iters >= 2
    /\ left = right + 1 /\ left > 0

\* C28: Search and binary_search are one algorithm up to the index shift:
\* after the same number of passes Left = left + 1 and Right = right + 1,
\* they end after the same number of passes, and the Ada result is the C
\* result + 1.
C28_AdaMatchesC ==
    /\ (pcA = "loop" /\ pc = "loop" /\ Iters = iters) =>
        /\ Left = left + 1
        /\ Right = right + 1
    /\ (pcA \in {"loop", "done"} /\ pc \in {"loop", "done"}
            /\ Iters = iters /\ iters >= 1) =>
        Mid = mid + 1
    /\ (pcA = "done" /\ pc = "done") =>
        /\ Iters = iters
        /\ Result = result + 1
        /\ Reads = {i + 1 : i \in reads}

\* C28: both searches found the target of an array of several elements after
\* the same passes, more than one
C28_Witness ==
    /\ Len(arr) >= 3
    /\ pcA = "done" /\ pc = "done"
    /\ Iters >= 2 /\ iters = Iters
    /\ result >= 0 /\ Result = result + 1

\* C30: on every array, sorted or not, a result other than the sentinel is a
\* valid index that holds the target, so the only wrong outcome is the
\* sentinel for a target that occurs.
C30_FoundIsSound ==
    /\ (pc = "done" /\ result # NotFound) =>
        /\ InBounds(result)
        /\ Elem(result) = target
    /\ (pcA = "done" /\ Result # Search_NotFound) =>
        /\ Result \in Arr_Range
        /\ arr[Result] = target
    /\ (pc = "done" /\ ~(result # NotFound /\ (result + 1) \in Occurrences)
            /\ ~(result = NotFound /\ Occurrences = {})) =>
        (result = NotFound /\ Occurrences # {})
    /\ (pcA = "done" /\ ~(Result # Search_NotFound /\ Result \in Occurrences)
            /\ ~(Result = Search_NotFound /\ Occurrences = {})) =>
        (Result = Search_NotFound /\ Occurrences # {})

\* C30: the target was found in an unsorted array after several passes
C30_Witness ==
    /\ ~Is_Sorted(arr)
    /\ pc = "done" /\ result # NotFound /\ iters >= 2
    /\ pcA = "done" /\ Result # Search_NotFound /\ Iters >= 2

\* C24: the check of adjacent elements (C is_sorted, Ada Is_Sorted) returns
\* true exactly when every pair of indices i < j has element(i) <= element(j),
\* and on sequences of length 0 and 1 it returns true without reading an
\* element; it never reads outside the sequence.
C24_SortedCheck ==
    /\ Is_Sorted(arr) = Pairwise(arr)
    /\ Len(arr) <= 1 => Is_Sorted(arr) /\ Is_Sorted_Reads(arr) = {}
    /\ Is_Sorted_Reads(arr) \subseteq Arr_Range
    /\ ipc = "done" =>
        /\ is_ret = Pairwise(arr)
        /\ Len(arr) <= 1 => is_ret /\ is_reads = {}
    /\ \A i \in is_reads : InBounds(i)

\* C24: is_sorted returned true on a sorted array with equal neighbours after
\* reading all of it
C24_Witness ==
    /\ ipc = "done" /\ is_ret
    /\ Len(arr) >= 3 /\ arr[1] = arr[2] /\ arr[2] < arr[3]
    /\ is_reads = 0 .. Len(arr) - 1

\* C25: after Copy_Name with Src'Length <= Dest'Length the first Src'Length
\* characters of Dest are those of Src in order and every other character of
\* Dest is a space; no index outside Dest'Range or Src'Range is accessed (no
\* index check fails), for an empty Src and for Src'Length = Dest'Length too.
C25_CopyNamePost ==
    /\ cnpc # "raised"
    /\ CopyReads \subseteq Src_First .. Src_Last
    /\ CopyWrites \subseteq Dest_First .. Dest_Last
    /\ cnpc = "loop" =>
        \A J \in Dest_First .. Copy_I - 1 :
            IF J - Dest_First < Len(Src)
            THEN Dest[J] = Src[J - Dest_First + 1]
            ELSE Dest[J] = Space
    /\ cnpc = "done" =>
        /\ Len(Dest) = Max_Name_Len
        /\ \A K \in 1 .. Len(Src) : Dest[Dest_First + K - 1] = Src[K]
        /\ \A J \in Dest_First + Len(Src) .. Dest_Last : Dest[J] = Space
        /\ CopyWrites = Dest_First .. Dest_Last
        /\ CopyReads = Src_First .. Src_Last

\* C25: "Ada SPARK", a slice that does not start at 1, was copied into a
\* destination that held other characters
C25_Witness ==
    /\ cnpc = "done" /\ Src = Short_Name /\ Src_First > 1
    /\ \E c \in CopyWrites : c > Len(Src)
    /\ Dest[1] = 65 /\ Dest[9] = 75 /\ Dest[10] = Space /\ Dest[Max_Name_Len] = Space
    /\ CopyReads = Src_First .. Src_First + 8

\* C26: fill_buffer (buf, size, value) writes size + 1 elements, at the
\* indices 0 .. size, so for a buffer of exactly size elements one write, the
\* one at index size, falls outside the buffer; fill_buffer (buffer, 10, 'A')
\* writes 11 bytes into the 10-byte buffer.
C26_FillOffByOne ==
    /\ fb_writes \subseteq 0 .. fb_size
    /\ fbpc = "done" =>
        /\ fb_writes = 0 .. fb_size
        /\ Cardinality(fb_writes) = fb_size + 1
        /\ \A i \in 1 .. Len(fb_buf) : i <= fb_size + 1 => fb_buf[i] = fb_value
    /\ (fbpc = "done" /\ fb_size = Len(fb_buf)) => fb_writes = 0 .. fb_size
    /\ (fbpc \in {"done", "trapped"} /\ fb_size = Len(fb_buf)) =>
        {i \in fb_writes : i \notin 0 .. Len(fb_buf) - 1} = {fb_size}
    /\ fbpc = "trapped" =>
        /\ fb_i = fb_size /\ fb_size = Len(fb_buf)
        /\ \A j \in 1 .. Len(fb_buf) : fb_buf[j] \in {fb_value, fb_entry[j]}
    /\ (fbpc = "done" /\ Len(fb_buf) = MainBufferSize
            /\ fb_size = MainBufferSize) =>
        Cardinality(fb_writes) = MainBufferSize + 1

\* C26: main's call returned: 11 writes, the last one past the 10 bytes
C26_Witness ==
    /\ fbpc = "done" /\ Len(fb_buf) = MainBufferSize
    /\ fb_size = MainBufferSize /\ fb_value = MainFillValue
    /\ fb_writes = 0 .. MainBufferSize
    /\ fb_buf[MainBufferSize] = MainFillValue

\* C27 as stated: when offset > size the loop of shift_data reads
\* buf[i + offset] at an index >= size.
C27_WrapReadsPastEnd ==
    (sdpc \in {"done", "trapped"} /\ sd_offset > sd_size) =>
        \E k \in sd_reads : k >= sd_size

\* C27 amended: size and offset are int, so when offset > size the bound
\* size - offset is negative and the loop body never runs: nothing is read or
\* written.  For 0 <= offset every access is inside the buffer.  Accesses
\* outside happen for a negative offset only: reads below index 0 and writes
\* at index >= size.
C27_ShiftDataInt ==
    /\ sd_offset > sd_size =>
        /\ sd_reads = {} /\ sd_writes = {} /\ sd_i = 0
        /\ sdpc \in {"loop", "done"}
    /\ sd_offset >= 0 =>
        /\ \A k \in sd_reads \cup sd_writes : CShiftIn(k)
        /\ sdpc # "trapped"
    /\ \A k \in sd_reads : k < sd_size
    /\ (sdpc = "done" /\ sd_offset < 0) =>
        /\ sd_offset \in sd_reads
        /\ sd_size \in sd_writes

\* C27: a call with offset > size returned without an access
C27_Witness ==
    /\ sdpc = "done" /\ sd_offset > sd_size /\ Len(sd_buf) >= 2
    /\ sd_reads = {} /\ sd_writes = {}

\* C29: whenever 0 <= left <= right and left + right does not overflow,
\* left + (right - left) / 2 = (left + right) / 2; so on arrays whose length
\* keeps left + right representable binary_search and binary_search_naive
\* have the same bounds after the same number of passes, visit the same
\* midpoints and return the same result.
C29_NaiveMatchesSafe ==
    /\ n_pc = "call" =>
        \A l \in MidBounds : \A r \in MidBounds :
            (l <= r /\ ~NaiveOverflows(l, r)) => NaiveMid(l, r) = Midpoint(l, r)
    /\ ~n_ovf
    /\ (pc = "loop" /\ n_pc = "loop" /\ iters = n_iters) =>
        /\ left = n_left
        /\ right = n_right
        /\ LoopCond(left, right) => NaiveMid(left, right) = Midpoint(left, right)
    /\ (pc \in {"loop", "done"} /\ n_pc \in {"loop", "done"}
            /\ iters = n_iters /\ iters >= 1) =>
        mid = n_mid
    /\ (pc = "done" /\ n_pc = "done") =>
        /\ iters = n_iters
        /\ reads = n_reads
        /\ result = n_result

\* C29: both functions found 19 in the array of main after the same four
\* passes
C29_Witness ==
    /\ arr = TestArr /\ target = 19
    /\ pc = "done" /\ n_pc = "done"
    /\ result = 9 /\ n_result = 9
    /\ iters = 4 /\ n_iters = 4
    /\ reads = {4, 7, 8, 9} /\ n_reads = {4, 7, 8, 9}

=============================================================================
